---------------------------- MODULE Spec2Model ----------------------------
(***************************************************************************)
(* Model of the UPS daily shipment detail report extractor                 *)
(* (src/ups_extract.py, extract_shipment_data).                            *)
(*                                                                         *)
(* Text is modelled by TLA+ strings; a character is a string of length 1.  *)
(* TLA+ string literals are ASCII, so the four non-ASCII characters the    *)
(* source names are written with ASCII stand-ins that occur nowhere else   *)
(* in the model:                                                           *)
(*     "#"  U+C774, the Hangul syllable of line 49 (a letter, so \w)       *)
(*     "<"  U+300C and ">" U+300D, the corner brackets of line 50          *)
(*     "*"  U+2022, the bullet of the tracking pattern, line 73            *)
(***************************************************************************)
EXTENDS Integers, Sequences, FiniteSets, TLC

VARIABLES
    pc,           \* where extract_shipment_data stands: "pages", "lines", "done"
    pageNo,       \* the number of pages taken from pdf.pages
    lines,        \* text.split("\n") of the current page
    lineNo,       \* the index in lines of the line the loop is at
    records,      \* the list that is returned
    current_ref,  \* None, or Some(text)
    is_void,      \* the carried void flag
    seen,         \* history: the lines processed so far, in document order
    origin,       \* history: for each record, the index in seen of its line
    page_of,      \* history: for each line of seen, the number of its page
    nline,        \* normaliser on its own: the line given
    npass,        \* normaliser on its own: the results of successive passes
    hpc,          \* where the HTTP handler extract() stands
    request,      \* the upload: whether request.files has "pdf", and its filename
    tmp_file,     \* the temporary file: "absent", "exists" or "removed"
    response      \* None, or Some(what the handler returns)

\* the variables of the HTTP handler
hvars == <<hpc, request, tmp_file, response>>

vars == <<pc, pageNo, lines, lineNo, records, current_ref, is_void, seen, origin, page_of,
          nline, npass, hpc, request, tmp_file, response>>

(***************************************************************************)
(* Bounds of the model.                                                    *)
(***************************************************************************)
MaxPages == 3

(***************************************************************************)
(* Characters and character classes of Python's re module.                 *)
(***************************************************************************)
Ch(s, i) == IF 1 <= i /\ i <= Len(s) THEN SubSeq(s, i, i) ELSE ""

GlyphRa == "#"
GlyphOpen == "<"
GlyphClose == ">"
Bullet == "*"

UpperLetters == "ABCDEFGHIJKLMNOPQRSTUVWXYZ"
LowerLetters == "abcdefghijklmnopqrstuvwxyz"
DigitChars == "0123456789"

CharsOf(s) == {Ch(s, i) : i \in 1..Len(s)}

UpperSet == CharsOf(UpperLetters)
LowerSet == CharsOf(LowerLetters)
DigitSet == CharsOf(DigitChars)

\* \s
IsSpace(c) == c \in {" ", "\t"}

\* \w of a str pattern: letters (the Hangul glyph is one), digits, underscore
IsWord(c) == c \in UpperSet \cup LowerSet \cup DigitSet \cup {"_", GlyphRa}

\* [A-Z0-9]
IsUpperAlnum(c) == c \in UpperSet \cup DigitSet

\* case folding of re.IGNORECASE
ToUpper(c) ==
    IF c \in LowerSet
    THEN Ch(UpperLetters, CHOOSE k \in 1..Len(LowerLetters) : Ch(LowerLetters, k) = c)
    ELSE c

(***************************************************************************)
(* String helpers.                                                         *)
(***************************************************************************)
\* the literal lit stands in s at position i
StartsAt(s, i, lit) ==
    /\ i >= 1
    /\ i + Len(lit) - 1 <= Len(s)
    /\ SubSeq(s, i, i + Len(lit) - 1) = lit

\* the same, ignoring case
StartsAtNoCase(s, i, lit) ==
    /\ i >= 1
    /\ i + Len(lit) - 1 <= Len(s)
    /\ \A k \in 1..Len(lit) : ToUpper(Ch(s, i + k - 1)) = ToUpper(Ch(lit, k))

\* sub in s
Contains(s, sub) == \E i \in 1..(Len(s) + 1) : StartsAt(s, i, sub)

\* the position after a greedy \s* that starts at i
SkipSpaces(s, i) ==
    IF i > Len(s) THEN i
    ELSE CHOOSE j \in i..(Len(s) + 1) :
             /\ \A k \in i..(j - 1) : IsSpace(Ch(s, k))
             /\ ~IsSpace(Ch(s, j))

\* the position after an optional single character of cs at i
SkipOpt(s, i, cs) == IF Ch(s, i) \in cs THEN i + 1 ELSE i

\* str.strip()
Strip(s) ==
    LET a == SkipSpaces(s, 1)
        b == CHOOSE j \in 0..Len(s) :
                 /\ \A k \in (j + 1)..Len(s) : IsSpace(Ch(s, k))
                 /\ ~IsSpace(Ch(s, j))
    IN  IF a > Len(s) THEN "" ELSE SubSeq(s, a, b)

\* str.replace(old, new) for a single character old
RECURSIVE ReplaceFrom(_, _, _, _)
ReplaceFrom(s, i, old, new) ==
    IF i > Len(s) THEN ""
    ELSE (IF Ch(s, i) = old THEN new ELSE Ch(s, i)) \o ReplaceFrom(s, i + 1, old, new)

Replace(s, old, new) == ReplaceFrom(s, 1, old, new)

\* text.split("\n")
RECURSIVE SplitFrom(_, _, _)
SplitFrom(s, i, start) ==
    IF i > Len(s) THEN <<SubSeq(s, start, Len(s))>>
    ELSE IF Ch(s, i) = "\n"
         THEN <<SubSeq(s, start, i - 1)>> \o SplitFrom(s, i + 1, i + 1)
         ELSE SplitFrom(s, i + 1, start)

SplitLines(text) == SplitFrom(text, 1, 1)

(***************************************************************************)
(* Optional values: None is the empty tuple, a present value v is <<v>>.   *)
(***************************************************************************)
None == <<>>
Some(v) == <<v>>

(***************************************************************************)
(* Line normalisation, lines 48-50.                                        *)
(***************************************************************************)
\* re.sub(r'<U+C774>\s*', '01', line)
RECURSIVE SubGlyphRaFrom(_, _)
SubGlyphRaFrom(s, i) ==
    IF i > Len(s) THEN ""
    ELSE IF Ch(s, i) = GlyphRa
         THEN "01" \o SubGlyphRaFrom(s, SkipSpaces(s, i + 1))
         ELSE Ch(s, i) \o SubGlyphRaFrom(s, i + 1)

SubGlyphRa(line) == SubGlyphRaFrom(line, 1)

\* re.sub(r'[<U+300C><U+300D>]', '01', normalized)
SubBrackets(s) == Replace(Replace(s, GlyphOpen, "01"), GlyphClose, "01")

\* the brackets rewritten to the Hangul glyph, after that glyph was handled
normalizeWrongOrder(line) ==
    Replace(Replace(SubGlyphRa(line), GlyphOpen, GlyphRa), GlyphClose, GlyphRa)

normalize(line) == SubBrackets(SubGlyphRa(line))

(***************************************************************************)
(* VOID detection, line 53: re.search(r"\bVOID\b", line) and               *)
(* "Voided" not in line.                                                   *)
(***************************************************************************)
HasVoidWord(line) ==
    \E i \in 1..Len(line) :
        /\ StartsAt(line, i, "VOID")
        /\ ~IsWord(Ch(line, i - 1))
        /\ ~IsWord(Ch(line, i + 4))

\* a void test that does not look for "Voided"
IsVoidMarkerLoose(line) == HasVoidWord(line)

IsVoidMarker(line) == HasVoidWord(line) /\ ~Contains(line, "Voided")

(***************************************************************************)
(* Package Ref No.1, lines 61-69.                                          *)
(***************************************************************************)
\* Package\s*Ref\s*N[Oo]\.?\s*1\s*[.:] matched at i: the position after it, or 0
RefLabelEnd(s, i) ==
    IF ~StartsAt(s, i, "Package") THEN 0
    ELSE LET j1 == SkipSpaces(s, i + 7)
         IN  IF ~StartsAt(s, j1, "Ref") THEN 0
             ELSE LET j2 == SkipSpaces(s, j1 + 3)
                  IN  IF ~(Ch(s, j2) = "N" /\ Ch(s, j2 + 1) \in {"O", "o"}) THEN 0
                      ELSE LET j3 == SkipSpaces(s, SkipOpt(s, j2 + 2, {"."}))
                           IN  IF Ch(s, j3) # "1" THEN 0
                               ELSE LET j4 == SkipSpaces(s, j3 + 1)
                                    IN  IF Ch(s, j4) \in {".", ":"} THEN j4 + 1 ELSE 0

\* \s+ at p, then the word w
SpacesThen(s, p, w) == IsSpace(Ch(s, p)) /\ StartsAt(s, SkipSpaces(s, p), w)

\* \s+ at p, then w1, then \s+, then w2
SpacesThenTwo(s, p, w1, w2) ==
    /\ SpacesThen(s, p, w1)
    /\ SpacesThen(s, SkipSpaces(s, p) + Len(w1), w2)

\* (?=\s+UPS\s+T|\s+Tracking|\s+Service\s+Type|$) at position p
RefLookahead(s, p) ==
    \/ SpacesThenTwo(s, p, "UPS", "T")
    \/ SpacesThen(s, p, "Tracking")
    \/ SpacesThenTwo(s, p, "Service", "Type")
    \/ p = Len(s) + 1

\* \s*(.+?)(?=...) from position h: the group, or None.  The greedy \s* is
\* tried longest first; the lazy group then grows until the lookahead holds,
\* which the end of the line always satisfies.  Only when nothing but
\* whitespace follows h does \s* give back its last character to the group.
RefGroup(s, h) ==
    LET k == SkipSpaces(s, h)
        first == IF k <= Len(s) THEN k ELSE Len(s)
    IN  IF first < h THEN None
        ELSE LET e == CHOOSE e \in first..Len(s) :
                          /\ RefLookahead(s, e + 1)
                          /\ \A d \in first..(e - 1) : ~RefLookahead(s, d + 1)
             IN  Some(SubSeq(s, first, e))

\* the pattern tried at start position i
RefMatchAt(s, i) ==
    IF RefLabelEnd(s, i) = 0 THEN None ELSE RefGroup(s, RefLabelEnd(s, i))

\* re.search: the match at the leftmost start position that has one
RefSearch(s) ==
    LET hits == {i \in 1..Len(s) : RefMatchAt(s, i) # None}
    IN  IF hits = {} THEN None
        ELSE RefMatchAt(s, CHOOSE i \in hits : \A j \in hits : i <= j)

\* re.sub(r'\s+UPS\s+T\S.*$', '', ref, flags=re.IGNORECASE)
CutUpsT(s) ==
    LET hit(p) == /\ IsSpace(Ch(s, p))
                  /\ StartsAtNoCase(s, SkipSpaces(s, p), "UPS")
                  /\ IsSpace(Ch(s, SkipSpaces(s, p) + 3))
                  /\ LET t == SkipSpaces(s, SkipSpaces(s, p) + 3)
                     IN  /\ ToUpper(Ch(s, t)) = "T"
                         /\ t + 1 <= Len(s)
                         /\ ~IsSpace(Ch(s, t + 1))
        hits == {p \in 1..Len(s) : hit(p)}
    IN  IF hits = {} THEN s
        ELSE SubSeq(s, 1, (CHOOSE p \in hits : \A q \in hits : p <= q) - 1)

\* re.sub(r'\s+Tracking.*$', '', ref, flags=re.IGNORECASE)
CutTracking(s) ==
    LET hit(p) == /\ IsSpace(Ch(s, p))
                  /\ StartsAtNoCase(s, SkipSpaces(s, p), "Tracking")
        hits == {p \in 1..Len(s) : hit(p)}
    IN  IF hits = {} THEN s
        ELSE SubSeq(s, 1, (CHOOSE p \in hits : \A q \in hits : p <= q) - 1)

\* lines 66-69: the value assigned to current_ref on a reference match
CleanRef(group) == Strip(CutTracking(Strip(CutUpsT(Strip(group)))))

(***************************************************************************)
(* Tracking No., lines 72-80.                                              *)
(***************************************************************************)
\* Tracking\s*N[Oo]\.?[.<U+2022>]?\s*:?\s* matched at i and followed by
\* [1Il][Z27][A-Z0-9]: the position where the group starts, or 0
TokenStartAt(s, i) ==
    IF ~StartsAt(s, i, "Tracking") THEN 0
    ELSE LET j1 == SkipSpaces(s, i + 8)
         IN  IF ~(Ch(s, j1) = "N" /\ Ch(s, j1 + 1) \in {"O", "o"}) THEN 0
             ELSE LET j2 == SkipOpt(s, SkipOpt(s, j1 + 2, {"."}), {".", Bullet})
                      j3 == SkipSpaces(s, SkipOpt(s, SkipSpaces(s, j2), {":"}))
                  IN  IF /\ Ch(s, j3) \in {"1", "I", "l"}
                         /\ Ch(s, j3 + 1) \in {"Z", "2", "7"}
                         /\ IsUpperAlnum(Ch(s, j3 + 2))
                      THEN j3 ELSE 0

\* the last position of the greedy [A-Z0-9]+ of a group that starts at j
TokenEnd(s, j) ==
    CHOOSE e \in (j + 2)..Len(s) :
        /\ \A k \in (j + 2)..e : IsUpperAlnum(Ch(s, k))
        /\ ~IsUpperAlnum(Ch(s, e + 1))

\* the pattern tried at start position i: the group, or None
TrackingMatchAt(s, i) ==
    IF TokenStartAt(s, i) = 0 THEN None
    ELSE Some(SubSeq(s, TokenStartAt(s, i), TokenEnd(s, TokenStartAt(s, i))))

\* a search that takes the token without its Tracking No. label
TrackingSearchNoLabel(s) ==
    LET hits == {j \in 1..Len(s) : /\ Ch(s, j) \in {"1", "I", "l"}
                                   /\ Ch(s, j + 1) \in {"Z", "2", "7"}
                                   /\ IsUpperAlnum(Ch(s, j + 2))}
    IN  IF hits = {} THEN None
        ELSE LET j == CHOOSE j \in hits : \A m \in hits : j <= m
             IN  Some(SubSeq(s, j, TokenEnd(s, j)))

\* a search that returns the rightmost match
TrackingSearchLast(s) ==
    LET hits == {i \in 1..Len(s) : TrackingMatchAt(s, i) # None}
    IN  IF hits = {} THEN None
        ELSE TrackingMatchAt(s, CHOOSE i \in hits : \A j \in hits : j <= i)

\* re.search: the leftmost match
TrackingSearch(s) ==
    LET hits == {i \in 1..Len(s) : TrackingMatchAt(s, i) # None}
    IN  IF hits = {} THEN None
        ELSE TrackingMatchAt(s, CHOOSE i \in hits : \A j \in hits : i <= j)

\* the fixed prefix of line 79
Prefix == "1ZGW0159"

\* a suffix cut one character late
SuffixFromTen(token) == IF Len(token) > 9 THEN SubSeq(token, 10, Len(token)) ELSE ""

\* line 77: tracking[8:] if len(tracking) > 8 else ""
SuffixOf(token) == IF Len(token) > 8 THEN SubSeq(token, 9, Len(token)) ELSE ""

\* line 78
FixConfusables(suffix) == Replace(Replace(Replace(suffix, "O", "0"), "I", "1"), "l", "1")

\* suffix[:10]
FirstTenPadded(s) == SubSeq(s \o "0000000000", 1, 10)

FirstTen(s) == IF Len(s) > 10 THEN SubSeq(s, 1, 10) ELSE s

\* lines 76-79: the identifier built from the matched token
Reconstruct(token) == Prefix \o FirstTen(FixConfusables(SuffixOf(Strip(token))))

(***************************************************************************)
(* The record of lines 83-87.  The keys "Package Ref No.1", "Tracking No." *)
(* and "Status" are the fields PackageRefNo1, TrackingNo and Status.       *)
(***************************************************************************)
\* str(current_ref) in place of current_ref or ""
RefOrNoneText(ref) == IF ref = None THEN "None" ELSE ref[1]

\* current_ref or ""
RefOrEmpty(ref) == IF ref = None \/ ref = Some("") THEN "" ELSE ref[1]

\* "VOID" if is_void else "Active"
StatusAtCreation(flag) == IF flag THEN "VOID" ELSE "Active"

NewRecord(ref, tracking, flag) ==
    [PackageRefNo1 |-> RefOrEmpty(ref),
     TrackingNo    |-> tracking,
     Status        |-> StatusAtCreation(flag)]

\* a void marker that drops the record it voids
DropLastVoided(recs) == SubSeq(recs, 1, Len(recs) - 1)

\* a void marker that marks every record
MarkAllVoid(recs) == [i \in 1..Len(recs) |-> [recs[i] EXCEPT !.Status = "VOID"]]

\* a void marker that flips the status of the last record
ToggleLast(recs) ==
    [recs EXCEPT ![Len(recs)].Status = IF @ = "VOID" THEN "Active" ELSE "VOID"]

\* records[-1]["Status"] = "VOID"
MarkLastVoid(recs) == [recs EXCEPT ![Len(recs)].Status = "VOID"]

\* an amend test that forgets the word Tracking
VoidAmendsAnyLine(recs, has_tracking) == recs # <<>>

\* line 54: the void marker amends the last record instead of setting is_void
VoidAmends(recs, has_tracking) == recs # <<>> /\ ~has_tracking

\* a discard rule that tests the wrong length
LongEnoughPrefixOnly(tracking) == ~(Len(tracking) < 8)

\* line 80 negated: the reconstructed identifier is kept
LongEnough(tracking) == ~(Len(tracking) < 18)

\* an append that forgets to clear the flag
FlagNotCleared(flag) == flag

\* line 88: is_void after a record is appended, given the flag before
FlagAfterAppend(flag) == FALSE

\* the tracking check reading the reference left by the previous line
RefBeforeLine(before, after) == before

\* lines 61-87: the reference check precedes the tracking check, so the
\* append reads the reference as the current line left it
RefAtTracking(before, after) == after

\* a discard that also drops the pending flag
FlagClearedOnDiscard(flag) == FALSE

\* lines 80-81: is_void after a match is discarded, given the flag before
FlagAfterDiscard(flag) == flag

\* the group of a match, "" when there is none
GroupOf(match) == IF match = None THEN "" ELSE match[1]

(***************************************************************************)
(* The input: what page.extract_text() may return for a page.              *)
(***************************************************************************)
LinePool ==
    { "Package Ref No.1: ORDER-100",
      "Tracking No.: 1Z9999999999999999",
      "VOID",
      "Tracking No.: 1Z12345",
      "VOID Tracking No.: 1Z7777777777777777",
      "Package Ref No.1: A7 Tracking No.: 1Z6666666666666666",
      "Voided VOID",
      "Tracking No.: 1Z999999O1I23O45678",
      "Tracking No.: 1Z999999123l567890",
      "Tracking No.: 1Z99999912345678I",
      "Tracking No. 1Z999999#  2345678>",
      "Tracking No.: 1Z5555555555555555 Tracking No.: 1Z4444444444444444",
      "Package Ref No.1: 1Z3333333333333333" }

ScenarioA == "Package Ref No.1: ORDER-100\nTracking No.: 1Z9999999999999999"
ScenarioB == "Package Ref No.1: ORDER-200\nVOID\nTracking No.: 1Z8888888888888888"

PageTexts ==
    {None, Some(""), Some(ScenarioA), Some(ScenarioB)} \cup {Some(l) : l \in LinePool}

\* not text
IsEmptyText(text) == text = None \/ text = Some("")

\* the lines of the page texts
LinesOf(text) == {SplitLines(text)[k] : k \in 1..Len(SplitLines(text))}

AllLines == UNION {LinesOf(t[1]) : t \in PageTexts \ {None}}

(***************************************************************************)
(* What lines 48-75 compute from a line alone, whatever the carried state: *)
(* the normalised line, the three tests and the two matches.  Analysis     *)
(* tabulates it for the lines of the input.                                *)
(***************************************************************************)
Analyse(line) ==
    [normalized     |-> normalize(line),
     voided         |-> IsVoidMarker(line),
     has_tracking   |-> Contains(line, "Tracking"),
     ref_match      |-> RefSearch(normalize(line)),
     tracking_match |-> TrackingSearch(normalize(line))]

Analysis == [l \in AllLines |-> Analyse(l)]

\* no HTTP request: extract_shipment_data is run on its own
NoRequest == [has_pdf |-> FALSE, filename |-> ""]

(***************************************************************************)
(* extract_shipment_data, lines 34-90.                                     *)
(***************************************************************************)
Init ==
    /\ pc = "pages"
    /\ pageNo = 0
    /\ lines = <<>>
    /\ lineNo = 0
    /\ records = <<>>
    /\ current_ref = None
    /\ is_void = FALSE
    /\ seen = <<>>
    /\ page_of = <<>>
    /\ origin = <<>>
    /\ nline = ""
    /\ npass = <<>>
    /\ hpc = "none"
    /\ request = NoRequest
    /\ tmp_file = "absent"
    /\ response = None

\* a skip that starts the carried state afresh
SkipPageResets ==
    /\ pc = "pages"
    /\ pageNo < MaxPages
    /\ \E text \in PageTexts : IsEmptyText(text)
    /\ pageNo' = pageNo + 1
    /\ current_ref' = None
    /\ is_void' = FALSE
    /\ UNCHANGED <<pc, lines, lineNo, records, seen, origin, page_of, nline, npass, hvars>>

\* lines 41-44: a page without text is skipped
SkipPage ==
    /\ pc = "pages"
    /\ pageNo < MaxPages
    /\ \E text \in PageTexts : IsEmptyText(text)
    /\ pageNo' = pageNo + 1
    /\ UNCHANGED <<pc, lines, lineNo, records, current_ref, is_void, seen, origin, page_of,
                   nline, npass, hvars>>

\* lines 41-46: a page with text is split into its lines
OpenPage ==
    /\ pc = "pages"
    /\ pageNo < MaxPages
    /\ \E text \in PageTexts :
          /\ ~IsEmptyText(text)
          /\ lines' = SplitLines(text[1])
    /\ pageNo' = pageNo + 1
    /\ lineNo' = 1
    /\ pc' = "lines"
    /\ UNCHANGED <<records, current_ref, is_void, seen, origin, page_of, nline, npass, hvars>>

\* lines 47-88: the loop body for one line, and the loop's advance
ProcessLine ==
    /\ pc = "lines"
    /\ LET line == lines[lineNo]
           voided == Analysis[line].voided
           amend == voided /\ VoidAmends(records, Analysis[line].has_tracking)
           recs1 == IF amend THEN MarkLastVoid(records) ELSE records
           void1 == IF voided /\ ~amend THEN TRUE ELSE is_void
           ref_match == Analysis[line].ref_match
           ref1 == IF ref_match # None THEN Some(CleanRef(ref_match[1])) ELSE current_ref
           tracking_match == Analysis[line].tracking_match
           tracking == Reconstruct(GroupOf(tracking_match))
           emit == tracking_match # None /\ LongEnough(tracking)
       IN  /\ records' = IF emit THEN Append(recs1, NewRecord(RefAtTracking(current_ref, ref1), tracking, void1))
                         ELSE recs1
           /\ is_void' = IF emit THEN FlagAfterAppend(void1)
                         ELSE IF tracking_match # None THEN FlagAfterDiscard(void1)
                         ELSE void1
           /\ current_ref' = ref1
           /\ seen' = Append(seen, line)
           /\ page_of' = Append(page_of, pageNo)
           /\ origin' = IF emit THEN Append(origin, Len(seen) + 1) ELSE origin
    /\ IF lineNo < Len(lines)
       THEN lineNo' = lineNo + 1 /\ pc' = "lines" /\ lines' = lines
       ELSE lineNo' = 0 /\ pc' = "pages" /\ lines' = <<>>
    /\ UNCHANGED <<pageNo, nline, npass, hvars>>

\* line 90: pdf.pages is exhausted
Return ==
    /\ pc = "pages"
    /\ pc' = "done"
    /\ UNCHANGED <<pageNo, lines, lineNo, records, current_ref, is_void, seen, origin, page_of,
                   nline, npass, hvars>>

Next == SkipPage \/ OpenPage \/ ProcessLine \/ Return

Spec == Init /\ [][Next]_vars

(***************************************************************************)
(* The normaliser on its own: a line is drawn, then normalised twice.      *)
(***************************************************************************)
MaxNormLen == 3

NormAlphabet == {GlyphRa, GlyphOpen, GlyphClose, " ", "0", "A"}

RECURSIVE StringsUpTo(_)
StringsUpTo(n) ==
    IF n = 0 THEN {""}
    ELSE StringsUpTo(n - 1) \cup {s \o c : s \in StringsUpTo(n - 1), c \in NormAlphabet}

NormInputs == StringsUpTo(MaxNormLen)

InitNormalize ==
    /\ pc = "normalize"
    /\ pageNo = 0
    /\ lines = <<>>
    /\ lineNo = 0
    /\ records = <<>>
    /\ current_ref = None
    /\ is_void = FALSE
    /\ seen = <<>>
    /\ page_of = <<>>
    /\ origin = <<>>
    /\ nline \in NormInputs
    /\ npass = <<>>
    /\ hpc = "none"
    /\ request = NoRequest
    /\ tmp_file = "absent"
    /\ response = None

NormalizePass ==
    /\ pc = "normalize"
    /\ Len(npass) < 2
    /\ npass' = Append(npass, normalize(IF npass = <<>> THEN nline ELSE npass[Len(npass)]))
    /\ UNCHANGED <<pc, pageNo, lines, lineNo, records, current_ref, is_void, seen,
                   origin, page_of, nline, hvars>>

SpecNormalize == InitNormalize /\ [][NormalizePass]_vars

(***************************************************************************)
(* The HTTP handler extract() of src/api/extract.py, lines 24-44, around   *)
(* extract_shipment_data.  Under it pdfplumber.open and page.extract_text  *)
(* may raise; an exception discards the locals of extract_shipment_data.   *)
(***************************************************************************)
Requests ==
    {NoRequest} \cup {[has_pdf |-> TRUE, filename |-> f] : f \in {"report.PDF", "report.txt"}}

\* pdf_file.filename.lower().endswith(".pdf")
EndsWithPdf(filename) ==
    Len(filename) >= Len(".pdf") /\ StartsAtNoCase(filename, Len(filename) - 3, ".pdf")

\* jsonify({"error": ...}), status
ErrorResponse(status, message) == [status |-> status, body |-> [error |-> message]]

\* jsonify({"records": records})
RecordsResponse(recs) == [status |-> 200, body |-> [records |-> recs]]

\* an except clause that answers with no records
ExceptionAsEmpty(message) == RecordsResponse(<<>>)

\* line 42: the answer of the except clause
ExceptionResponse(message) == ErrorResponse(500, message)

InitHttp ==
    /\ pc = "idle"
    /\ pageNo = 0
    /\ lines = <<>>
    /\ lineNo = 0
    /\ records = <<>>
    /\ current_ref = None
    /\ is_void = FALSE
    /\ seen = <<>>
    /\ page_of = <<>>
    /\ origin = <<>>
    /\ nline = ""
    /\ npass = <<>>
    /\ hpc = "request"
    /\ request \in Requests
    /\ tmp_file = "absent"
    /\ response = None

\* the variables of extract_shipment_data and of the normaliser
evars == <<pc, pageNo, lines, lineNo, records, current_ref, is_void, seen, origin, page_of,
           nline, npass>>

\* lines 26-27
RejectNoFile ==
    /\ hpc = "request"
    /\ ~request.has_pdf
    /\ response' = Some(ErrorResponse(400, "No PDF file uploaded"))
    /\ hpc' = "end"
    /\ UNCHANGED <<evars, request, tmp_file>>

\* lines 29-31
RejectNotPdf ==
    /\ hpc = "request"
    /\ request.has_pdf
    /\ ~EndsWithPdf(request.filename)
    /\ response' = Some(ErrorResponse(400, "File must be a PDF"))
    /\ hpc' = "end"
    /\ UNCHANGED <<evars, request, tmp_file>>

\* line 34: NamedTemporaryFile(suffix=".pdf", delete=False) creates the file
CreateTemp ==
    /\ hpc = "request"
    /\ request.has_pdf
    /\ EndsWithPdf(request.filename)
    /\ tmp_file' = "exists"
    /\ hpc' = "save"
    /\ UNCHANGED <<evars, request, response>>

\* lines 35-36: the upload is written; the with block closes the file, which
\* delete=False keeps
SaveUpload ==
    /\ hpc = "save"
    /\ hpc' = "try"
    /\ UNCHANGED <<evars, request, tmp_file, response>>

\* line 35: pdf_file.save raises; the exception leaves the with block and the
\* handler, the try of line 38 is never entered
SaveRaises ==
    /\ hpc = "save"
    /\ hpc' = "raised"
    /\ UNCHANGED <<evars, request, tmp_file, response>>

\* lines 38-39: extract_shipment_data(tmp_path) is called
CallExtract ==
    /\ hpc = "try"
    /\ hpc' = "extract"
    /\ pc' = "open"
    /\ UNCHANGED <<pageNo, lines, lineNo, records, current_ref, is_void, seen, origin, page_of,
                   nline, npass, request, tmp_file, response>>

\* src/ups_extract.py line 40: pdfplumber.open succeeds
OpenPdf ==
    /\ pc = "open"
    /\ pc' = "pages"
    /\ UNCHANGED <<pageNo, lines, lineNo, records, current_ref, is_void, seen, origin, page_of,
                   nline, npass, hvars>>

\* src/ups_extract.py lines 40-42: pdfplumber.open, pdf.pages or
\* page.extract_text raises; the frame and its records are gone
ExtractRaises ==
    /\ pc \in {"open", "pages"}
    /\ pc' = "raised"
    /\ pageNo' = 0
    /\ lines' = <<>>
    /\ lineNo' = 0
    /\ records' = <<>>
    /\ current_ref' = None
    /\ is_void' = FALSE
    /\ seen' = <<>>
    /\ page_of' = <<>>
    /\ origin' = <<>>
    /\ UNCHANGED <<nline, npass, hvars>>

\* lines 39-40: extraction returned, the records are answered
RespondRecords ==
    /\ hpc = "extract"
    /\ pc = "done"
    /\ response' = Some(RecordsResponse(records))
    /\ hpc' = "finally"
    /\ UNCHANGED <<evars, request, tmp_file>>

\* lines 41-42: extraction raised, the except clause answers
RespondError ==
    /\ hpc = "extract"
    /\ pc = "raised"
    /\ response' = Some(ExceptionResponse("decode failure"))
    /\ hpc' = "finally"
    /\ UNCHANGED <<evars, request, tmp_file>>

\* lines 43-44: os.unlink(tmp_path)
Unlink ==
    /\ hpc = "finally"
    /\ tmp_file' = "removed"
    /\ hpc' = "end"
    /\ UNCHANGED <<evars, request, response>>

NextHttp ==
    \/ RejectNoFile \/ RejectNotPdf \/ CreateTemp \/ SaveUpload \/ SaveRaises
    \/ CallExtract \/ OpenPdf \/ ExtractRaises
    \/ SkipPage \/ OpenPage \/ ProcessLine \/ Return
    \/ RespondRecords \/ RespondError \/ Unlink

SpecHttp == InitHttp /\ [][NextHttp]_vars

(***************************************************************************)
(* Properties.                                                             *)
(***************************************************************************)
\* the lines processed so far that match the tracking pattern
HasMatch(k) == Analysis[seen[k]].tracking_match # None

\* the identifier line k reconstructs
ReconstructedAt(k) == Reconstruct(GroupOf(Analysis[seen[k]].tracking_match))

\* line k produced a record
Emitted(k) == \E i \in 1..Len(origin) : origin[i] = k

\* line k is a void marker line
IsMarkerAt(k) == Analysis[seen[k]].voided

\* C1: every record's Tracking No. has exactly 18 characters and begins with
\* 1ZGW0159, and a line whose match reconstructs to fewer than 18 characters
\* has produced no record.
C1_TrackingShape ==
    /\ \A i \in 1..Len(records) :
          /\ Len(records[i].TrackingNo) = 18
          /\ SubSeq(records[i].TrackingNo, 1, 8) = "1ZGW0159"
    /\ \A k \in 1..Len(seen) :
          (HasMatch(k) /\ Len(ReconstructedAt(k)) < 18) => ~Emitted(k)

C1_Witness ==
    /\ records # <<>>
    /\ \E k \in 1..Len(seen) : HasMatch(k) /\ Len(ReconstructedAt(k)) < 18

\* what a step does that processes a void marker line without the word
\* Tracking while records is non-empty
C2_Step ==
    (/\ pc = "lines"
     /\ records # <<>>
     /\ Analysis[lines[lineNo]].voided
     /\ ~Contains(lines[lineNo], "Tracking"))
    => /\ Len(records') = Len(records)
       /\ records'[Len(records)] = [records[Len(records)] EXCEPT !.Status = "VOID"]
       /\ \A i \in 1..(Len(records) - 1) : records'[i] = records[i]
       /\ is_void' = is_void

\* C2: a step that processes a void marker line (the word VOID, no "Voided")
\* without the word Tracking while records is non-empty sets the last record's
\* status to VOID, changes nothing else of records and leaves is_void as it was.
C2_AmendsLastOnly == [][C2_Step]_vars

C2_Witness ==
    /\ Len(seen) >= 1
    /\ seen[Len(seen)] = "VOID"
    /\ Len(records) >= 2
    /\ origin[Len(records)] < Len(seen)
    /\ records[Len(records)].Status = "VOID"
    /\ records[1].Status = "Active"

\* the index in seen of the line before the lines that lead to record i
Before(org, i) == IF i = 1 THEN 0 ELSE org[i - 1]

\* a void marker line processed while records was empty makes the first
\* record VOID
C3_FirstIsVoid ==
    (/\ records # <<>>
     /\ \E k \in 1..(origin[1] - 1) : IsMarkerAt(k))
    => records[1].Status = "VOID"

\* the three lines of scenario B give exactly one record, which is VOID
C3_ScenarioB ==
    seen = <<"Package Ref No.1: ORDER-200", "VOID", "Tracking No.: 1Z8888888888888888">>
    => /\ Len(records) = 1
       /\ records[1].Status = "VOID"

\* is_void is false right after an append, and the second record is created
\* Active when no void marker line follows the line of the first
C3_Step ==
    /\ Len(records') > Len(records) => ~is_void'
    /\ (/\ Len(records) = 1
        /\ Len(records') = 2
        /\ \E k \in 1..(origin[1] - 1) : IsMarkerAt(k)
        /\ \A k \in (origin[1] + 1)..Len(seen') : ~Analysis[seen'[k]].voided)
       => records'[2].Status = "Active"

\* C3: a void marker line processed while records is still empty makes the
\* next record emitted (the first) VOID; is_void is false right after a record
\* is appended; the record after it is created Active unless a void marker
\* line follows the first record's line; and the lines of scenario B give
\* exactly one record, which is VOID.
C3_PendingVoid == [](C3_FirstIsVoid /\ C3_ScenarioB) /\ [][C3_Step]_vars

C3_Witness ==
    /\ seen = <<"Package Ref No.1: ORDER-200", "VOID", "Tracking No.: 1Z8888888888888888",
                "Tracking No.: 1Z9999999999999999">>
    /\ Len(records) = 2
    /\ records[1].Status = "VOID"
    /\ records[2].Status = "Active"
    /\ ~is_void

\* C4 as stated: a record is VOID whenever a void marker line lies between
\* the line of the previous record and the line that creates it.
C4_VoidSinceLastRecord ==
    \A i \in 1..Len(records) :
        (\E k \in (Before(origin, i) + 1)..(origin[i] - 1) : IsMarkerAt(k))
        => records[i].Status = "VOID"

\* the status a step gives the record it appends
C4_StepAmended ==
    Len(records') = Len(records) + 1
    => LET n == Len(records')
       IN  (records'[n].Status = "VOID")
           <=> \E k \in (Before(origin', n) + 1)..origin'[n] :
                  /\ Analysis[seen'[k]].voided
                  /\ n = 1 \/ Analysis[seen'[k]].has_tracking

\* C4 amended: a record is created VOID exactly when is_void is set, that is
\* when, after the line of the previous record, a void marker line was
\* processed that found records empty or that holds the word Tracking.
C4_CreatedVoidIffPending == [][C4_StepAmended]_vars

C4_Witness ==
    /\ Len(records) = 2
    /\ origin[2] = Len(seen)
    /\ seen[Len(seen)] = "VOID Tracking No.: 1Z7777777777777777"
    /\ records[1].Status = "Active"
    /\ records[2].Status = "VOID"

\* the indices up to k of the lines that assign the reference
RefLinesUpTo(k) == {j \in 1..k : Analysis[seen[j]].ref_match # None}

\* the reference the lines up to k leave, "" when none assigns it
LastRefUpTo(k) ==
    IF RefLinesUpTo(k) = {} THEN ""
    ELSE LET j == CHOOSE j \in RefLinesUpTo(k) : \A m \in RefLinesUpTo(k) : m <= j
         IN  Strip(CutTracking(Strip(CutUpsT(Strip(Analysis[seen[j]].ref_match[1])))))

\* C5: every record's reference is the text of the last reference line at or
\* before the line that produced it, "" when there is none.
C5_ReferenceCarried ==
    \A i \in 1..Len(records) : records[i].PackageRefNo1 = LastRefUpTo(origin[i])

C5_Witness ==
    /\ seen = <<"Package Ref No.1: ORDER-100", "Tracking No.: 1Z9999999999999999",
                "Tracking No.: 1Z9999999999999999">>
    /\ Len(records) = 2
    /\ records[1].PackageRefNo1 = "ORDER-100"
    /\ records[2].PackageRefNo1 = "ORDER-100"

ScenarioALines == <<"Package Ref No.1: ORDER-100", "Tracking No.: 1Z9999999999999999">>

\* C6 as stated: scenario A returns one record with tracking 1ZGW0159999999999.
C6_ScenarioAAsStated ==
    (pc = "done" /\ seen = ScenarioALines)
    => records = <<[PackageRefNo1 |-> "ORDER-100",
                    TrackingNo    |-> "1ZGW0159999999999",
                    Status        |-> "Active"]>>

\* C6 amended: scenario A returns one record with reference ORDER-100, status
\* Active and the 18 characters 1ZGW01599999999999 as tracking.
C6_ScenarioA ==
    (pc = "done" /\ seen = ScenarioALines)
    => records = <<[PackageRefNo1 |-> "ORDER-100",
                    TrackingNo    |-> "1ZGW01599999999999",
                    Status        |-> "Active"]>>

C6_Witness == pc = "done" /\ seen = ScenarioALines /\ Len(records) = 1

\* the lines of the input on which the tracking pattern finds a token
TrackingLines ==
    {l \in AllLines : \E i \in 1..Len(l) : TokenStartAt(SubBrackets(SubGlyphRa(l)), i) # 0}

\* the identifier written on a tracking line, a lowercase l counted among
\* its characters: where it ends, and the identifier itself
WrittenEnd(s, j) ==
    CHOOSE e \in (j + 2)..Len(s) :
        /\ \A k \in (j + 2)..e : IsUpperAlnum(Ch(s, k)) \/ Ch(s, k) = "l"
        /\ ~(IsUpperAlnum(Ch(s, e + 1)) \/ Ch(s, e + 1) = "l")

WrittenToken(l) ==
    LET s == SubBrackets(SubGlyphRa(l))
        i == CHOOSE i \in 1..Len(s) :
                 /\ TokenStartAt(s, i) # 0
                 /\ \A m \in 1..(i - 1) : TokenStartAt(s, m) = 0
    IN  SubSeq(s, TokenStartAt(s, i), WrittenEnd(s, TokenStartAt(s, i)))

\* the identifier the claim gives the line l, and the length of what is written
Claimed ==
    [l \in TrackingLines |->
        LET w == WrittenToken(l)
            tail == IF Len(w) > 8 THEN SubSeq(w, 9, Len(w)) ELSE ""
            suffix == Replace(Replace(Replace(tail, "O", "0"), "I", "1"), "l", "1")
        IN  [written  |-> Len(w),
             tracking |-> "1ZGW0159" \o (IF Len(suffix) > 10 THEN SubSeq(suffix, 1, 10)
                                         ELSE suffix)]]

\* C7 as stated: the identifier written on a tracking line is reconstructed
\* from its whole suffix, O read as 0 and I or lowercase l as 1: when it has
\* 18 characters or more the line produces a record whose tracking is the
\* prefix and the first ten corrected suffix characters.
C7_ConfusablesKept ==
    \A k \in 1..Len(seen) :
        (seen[k] \in TrackingLines /\ Claimed[seen[k]].written >= 18)
        => \E i \in 1..Len(records) :
              /\ origin[i] = k
              /\ records[i].TrackingNo = Claimed[seen[k]].tracking

\* C8: while no processed line matches the tracking pattern, records is empty.
C8_NoTrackingNoRecords ==
    (\A k \in 1..Len(seen) : seen[k] \notin TrackingLines) => records = <<>>

C8_Witness ==
    /\ pc = "done"
    /\ records = <<>>
    /\ \A k \in 1..Len(seen) : seen[k] \notin TrackingLines
    /\ \E k \in 1..Len(seen) : IsMarkerAt(k)
    /\ \E k \in 1..Len(seen) : Analysis[seen[k]].ref_match # None

\* what a step may do to records
C9_Step ==
    /\ Len(records') \in {Len(records), Len(records) + 1}
    /\ \A i \in 1..Len(records) :
          /\ records'[i].PackageRefNo1 = records[i].PackageRefNo1
          /\ records'[i].TrackingNo = records[i].TrackingNo

\* C9: every step keeps each record in its place with its reference and its
\* tracking, removes none and adds at most one, at the end; only Status of an
\* existing record may change.
C9_RecordsFrame == [][C9_Step]_vars

C9_Witness ==
    /\ Len(records) = 2
    /\ records[1].Status = "VOID"
    /\ records[2].Status = "Active"
    /\ records[1].PackageRefNo1 # records[2].PackageRefNo1
    /\ \E k \in (origin[1] + 1)..(origin[2] - 1) : IsMarkerAt(k)

\* the artifact glyphs the normaliser rewrites
HasGlyph(s) == \E k \in 1..Len(s) : Ch(s, k) \in {GlyphRa, GlyphOpen, GlyphClose}

\* C10: a line without artifact glyphs is returned unchanged, and a second
\* normalisation returns the result of the first.
C10_Idempotent ==
    /\ (Len(npass) >= 1 /\ ~HasGlyph(nline)) => npass[1] = nline
    /\ Len(npass) = 2 => npass[2] = npass[1]

C10_Witness ==
    /\ Len(npass) = 2
    /\ HasGlyph(nline)
    /\ npass[1] # nline
    /\ npass[2] = npass[1]

\* the handler is over: it returned a response or an exception left it
HandlerOver == hpc \in {"end", "raised"}

\* C11 as stated: once the temporary file was created, it no longer exists
\* when the handler has returned or raised, whatever happened in between.
C11_TempFileReleased == (HandlerOver /\ tmp_file # "absent") => tmp_file = "removed"

\* C12: when extract_shipment_data raised, the handler answers status 500 with
\* an error field and no records field; an answer with a records field is
\* given only when extraction returned, and it carries the records returned.
C12_FailureIsReported ==
    /\ (pc = "raised" /\ response # None)
       => /\ response[1].status = 500
          /\ DOMAIN response[1].body = {"error"}
    /\ (response # None /\ "records" \in DOMAIN response[1].body)
       => /\ pc = "done"
          /\ response[1].body.records = records
    /\ (hpc = "end" /\ pc = "raised") => response # None

C12_Witness ==
    /\ hpc = "end"
    /\ pc = "raised"
    /\ response # None
    /\ response[1].status = 500

\* the line the loop is at matches the tracking pattern and reconstructs to
\* fewer than 18 characters
AtShortMatch ==
    /\ pc = "lines"
    /\ Analysis[lines[lineNo]].tracking_match # None
    /\ Len(Reconstruct(GroupOf(Analysis[lines[lineNo]].tracking_match))) < 18

\* line k matched the tracking pattern and reconstructed too short
ShortAt(k) == HasMatch(k) /\ Len(ReconstructedAt(k)) < 18

\* a step at a short match leaves records alone and keeps a set flag
C13_Step == AtShortMatch => (records' = records /\ (is_void => is_void'))

\* a void marker that set the flag, then a short match, then record i
C13_StillApplied ==
    \A i \in 1..Len(records) :
        (\E k \in (Before(origin, i) + 1)..(origin[i] - 1) :
            /\ IsMarkerAt(k)
            /\ i = 1 \/ Analysis[seen[k]].has_tracking
            /\ \E k2 \in (k + 1)..(origin[i] - 1) : ShortAt(k2))
        => records[i].Status = "VOID"

\* C13: a line whose match reconstructs to fewer than 18 characters emits no
\* record, leaves records unchanged and does not clear is_void, and a void
\* that was pending before it is applied to the next record emitted.
C13_ShortMatchSkipped == []C13_StillApplied /\ [][C13_Step]_vars

C13_Witness ==
    /\ seen = <<"VOID", "Tracking No.: 1Z12345", "Tracking No.: 1Z9999999999999999">>
    /\ Len(records) = 1
    /\ records[1].Status = "VOID"

\* the line the loop is at matches the tracking pattern with a token that
\* reconstructs to 18 characters
AtValidMatch ==
    /\ pc = "lines"
    /\ Analysis[lines[lineNo]].tracking_match # None
    /\ Len(Reconstruct(GroupOf(Analysis[lines[lineNo]].tracking_match))) = 18

\* the step appends exactly one record and leaves the earlier ones as they were
AppendsOne ==
    /\ Len(records') = Len(records) + 1
    /\ SubSeq(records', 1, Len(records)) = records

\* a void marker, the word Tracking and a valid token on one line
C14_VoidStep ==
    (AtValidMatch /\ Analysis[lines[lineNo]].voided /\ Analysis[lines[lineNo]].has_tracking)
    => (AppendsOne /\ records'[Len(records')].Status = "VOID")

\* a reference assignment and a valid token on one line
C14_RefStep ==
    (AtValidMatch /\ Analysis[lines[lineNo]].ref_match # None)
    => /\ AppendsOne
       /\ records'[Len(records')].PackageRefNo1 = CleanRef(Analysis[lines[lineNo]].ref_match[1])
       /\ lines[lineNo] = "Package Ref No.1: A7 Tracking No.: 1Z6666666666666666"
          => records'[Len(records')].PackageRefNo1 = "A7"

\* C14: the three checks run on every line in the order void marker,
\* reference, tracking: a line with a void marker, the word Tracking and a
\* valid token emits a VOID record and leaves every earlier record as it was,
\* and a line with a reference assignment and a valid token emits a record
\* carrying that line's reference.
C14_CheckOrder == [][C14_VoidStep /\ C14_RefStep]_vars

C14_Witness ==
    /\ seen = <<"Tracking No.: 1Z9999999999999999",
                "VOID Tracking No.: 1Z7777777777777777",
                "Package Ref No.1: A7 Tracking No.: 1Z6666666666666666">>
    /\ Len(records) = 3
    /\ records[1].Status = "Active"
    /\ records[2].Status = "VOID"
    /\ records[3].PackageRefNo1 = "A7"
    /\ records[3].Status = "Active"

\* one character of a token as the correction reads it
CorrectedChar(c) == IF c = "O" THEN "0" ELSE IF c \in {"I", "l"} THEN "1" ELSE c

\* how many characters follow the prefix for a token of n characters
KeptOf(n) == IF n <= 8 THEN 0 ELSE IF n - 8 > 10 THEN 10 ELSE n - 8

\* for every line with a match: the length of the matched token, what the
\* code reconstructs from it, and whether that is the prefix followed,
\* character by character, by the corrected characters 9 to 18 of the token
Reconstructions ==
    [l \in {x \in AllLines : Analysis[x].tracking_match # None} |->
        LET t == GroupOf(Analysis[l].tracking_match)
            r == Reconstruct(t)
        IN  [token_len |-> Len(t),
             tracking  |-> r,
             exact     |-> /\ Len(r) = 8 + KeptOf(Len(t))
                           /\ SubSeq(r, 1, 8) = "1ZGW0159"
                           /\ \A j \in 9..Len(r) : Ch(r, j) = CorrectedChar(Ch(t, j))]]

\* C15: for every matched token the reconstruction is '1ZGW0159' followed by
\* the first 10 corrected characters of the token from index 8 on, nothing
\* padded; a record is emitted exactly when the token has 18 characters or
\* more, and token characters past index 17 are dropped.
C15_Reconstruction ==
    \A k \in 1..Len(seen) :
        HasMatch(k)
        => /\ Reconstructions[seen[k]].exact
           /\ Emitted(k) <=> Reconstructions[seen[k]].token_len >= 18
           /\ \A i \in 1..Len(records) :
                 origin[i] = k
                 => /\ records[i].TrackingNo = Reconstructions[seen[k]].tracking
                    /\ Len(records[i].TrackingNo) = 18

C15_Witness ==
    /\ seen = <<"Tracking No.: 1Z999999O1I23O45678",
                "Tracking No.: 1Z99999912345678I",
                "Tracking No.: 1Z12345">>
    /\ Len(records) = 1
    /\ records[1].TrackingNo = "1ZGW01590112304567"

\* a step over a page without text, and a step that opens a page
C16_SkipStep ==
    (pc = "pages" /\ pc' = "pages" /\ pageNo' = pageNo + 1)
    => UNCHANGED <<records, current_ref, is_void, lines, lineNo, seen>>

C16_TurnStep ==
    (pc = "pages" /\ pc' = "lines") => UNCHANGED <<records, current_ref, is_void>>

\* a record whose reference line, or whose pending void marker, is on an
\* earlier page than its tracking line
C16_AcrossPages ==
    \A i \in 1..Len(records) :
        /\ \A k \in RefLinesUpTo(origin[i]) :
              (page_of[k] < page_of[origin[i]] /\ \A m \in RefLinesUpTo(origin[i]) : m <= k)
              => records[i].PackageRefNo1 = LastRefUpTo(k)
        /\ (\E k \in (Before(origin, i) + 1)..(origin[i] - 1) :
              /\ page_of[k] < page_of[origin[i]]
              /\ IsMarkerAt(k)
              /\ i = 1 \/ Analysis[seen[k]].has_tracking)
           => records[i].Status = "VOID"

\* C16: a page with empty or absent text is skipped without changing the
\* carried reference, the pending-void flag or the records, and both carry
\* over page boundaries: a reference or a pending void marker on one page
\* applies to a tracking match on a later page.
C16_PagesCarryState == []C16_AcrossPages /\ [][C16_SkipStep /\ C16_TurnStep]_vars

\* a reference on page 1, page 2 without text, the tracking line on page 3
C16_Witness ==
    /\ seen = <<"Package Ref No.1: ORDER-100", "Tracking No.: 1Z9999999999999999">>
    /\ page_of = <<1, 3>>
    /\ Len(records) = 1
    /\ records[1].PackageRefNo1 = "ORDER-100"

\* every status is one of the two values
C17_TwoValues ==
    \A i \in 1..Len(records) : records[i].Status \in {"Active", "VOID"}

\* no step takes a record from VOID back to another status
C17_Step ==
    \A i \in 1..Len(records) :
        records[i].Status = "VOID"
        => (i <= Len(records') /\ records'[i].Status = "VOID")

\* C17: every record's status is Active or VOID, and once it is VOID no
\* later line sets it back: a repeated void marker on an already VOID last
\* record leaves it VOID.
C17_StatusMonotone == []C17_TwoValues /\ [][C17_Step]_vars

\* a tracking line followed by two void markers
C17_Witness ==
    /\ seen = <<"Tracking No.: 1Z9999999999999999", "VOID", "VOID">>
    /\ Len(records) = 1
    /\ records[1].Status = "VOID"

\* the lines of the input with a standalone VOID and without Voided
MarkerLines == {l \in AllLines : HasVoidWord(l) /\ ~Contains(l, "Voided")}

\* the indices in seen of the void marker lines, and of the VOID records
MarkersSeen == {k \in 1..Len(seen) : seen[k] \in MarkerLines}

VoidRecords == {i \in 1..Len(records) : records[i].Status = "VOID"}

\* the one record the marker line at k can make VOID: the last record emitted
\* before it when there is one and the line has no Tracking, otherwise the
\* first record emitted at or after it; 0 when there is no such record
TargetOf(k) ==
    LET earlier == {i \in 1..Len(origin) : origin[i] < k}
        later   == {i \in 1..Len(origin) : origin[i] >= k}
    IN  IF earlier # {} /\ ~Analysis[seen[k]].has_tracking
        THEN CHOOSE i \in earlier : \A m \in earlier : m <= i
        ELSE IF later # {} THEN CHOOSE i \in later : \A m \in later : i <= m
        ELSE 0

\* every VOID record is the one record of some marker line
C18_VoidHasMarker ==
    /\ \A i \in VoidRecords : \E k \in MarkersSeen : TargetOf(k) = i
    /\ Cardinality(VoidRecords) <= Cardinality(MarkersSeen)
    /\ MarkersSeen = {} => \A i \in 1..Len(records) : records[i].Status = "Active"

\* the records a step makes VOID: at most one, none unless the line is a
\* marker or consumes the pending flag
C18_Step ==
    LET turned == {i \in 1..Len(records') :
                      /\ records'[i].Status = "VOID"
                      /\ i > Len(records) \/ records[i].Status # "VOID"}
    IN  /\ Cardinality(turned) <= 1
        /\ (turned # {} /\ ~is_void) => (pc = "lines" /\ lines[lineNo] \in MarkerLines)

\* C18: a record is VOID only if a void marker line, a standalone VOID
\* without Voided, occurred in the input; without one every record is Active;
\* and each void marker line makes at most one record VOID, the last emitted
\* one or the next record that consumes the pending flag.
C18_VoidNeedsMarker == []C18_VoidHasMarker /\ [][C18_Step]_vars

\* two records, then a marker: only the second is VOID
C18_Witness ==
    /\ pc = "done"
    /\ seen = <<"Tracking No.: 1Z9999999999999999", "Tracking No.: 1Z9999999999999999", "VOID">>
    /\ Len(records) = 2
    /\ records[1].Status = "Active"
    /\ records[2].Status = "VOID"

\* for every tracking line, the identifier rebuilt from the first token on it
FirstTokens ==
    [l \in TrackingLines |->
        LET s == SubBrackets(SubGlyphRa(l))
            i == CHOOSE i \in 1..Len(s) :
                     /\ TokenStartAt(s, i) # 0
                     /\ \A m \in 1..(i - 1) : TokenStartAt(s, m) = 0
            t == SubSeq(s, TokenStartAt(s, i), TokenEnd(s, TokenStartAt(s, i)))
            tail == IF Len(t) > 8 THEN SubSeq(t, 9, Len(t)) ELSE ""
            suffix == Replace(Replace(Replace(tail, "O", "0"), "I", "1"), "l", "1")
        IN  "1ZGW0159" \o (IF Len(suffix) > 10 THEN SubSeq(suffix, 1, 10) ELSE suffix)]

\* the records come from distinct tracking lines, in the order of those lines,
\* each from the first token of its line
C19_OnePerLine ==
    /\ Len(origin) = Len(records)
    /\ \A i, j \in 1..Len(records) : i < j => origin[i] < origin[j]
    /\ \A i \in 1..Len(records) :
          /\ seen[origin[i]] \in TrackingLines
          /\ records[i].TrackingNo = FirstTokens[seen[origin[i]]]
          /\ seen[origin[i]] = "Tracking No.: 1Z5555555555555555 Tracking No.: 1Z4444444444444444"
             => records[i].TrackingNo = "1ZGW01595555555555"
    /\ Len(records) <= Cardinality({k \in 1..Len(seen) : seen[k] \in TrackingLines})

\* a step adds at most one record, at the end
C19_Step ==
    /\ Len(records') \in {Len(records), Len(records) + 1}
    /\ \A i \in 1..Len(records) :
          /\ records'[i].TrackingNo = records[i].TrackingNo
          /\ records'[i].PackageRefNo1 = records[i].PackageRefNo1

\* C19: each line contributes at most one record and the records are in the
\* document order of their lines, so there are never more records than lines
\* matching the tracking pattern; a line with two tracking tokens yields a
\* record for the first one only.
C19_OneRecordPerLine == []C19_OnePerLine /\ [][C19_Step]_vars

C19_Witness ==
    /\ seen = <<"Tracking No.: 1Z5555555555555555 Tracking No.: 1Z4444444444444444",
                "Tracking No.: 1Z9999999999999999">>
    /\ Len(records) = 2
    /\ records[1].TrackingNo = "1ZGW01595555555555"
    /\ records[2].TrackingNo = "1ZGW01599999999999"

=============================================================================
